---------------------------- MODULE Spec2Model ----------------------------
(***************************************************************************)
(* Session lifecycle of the headless-chromium control shim.                *)
(*                                                                         *)
(* The model covers class Browser (src/browser.cc, identical in            *)
(* src/cc/hc_server/browser.cc apart from Run), the extern "C" adapter of  *)
(* src/browser.cc and the hc_server main program (src/cc/hc_server/main.cc)*)
(*                                                                         *)
(* The browser engine is an external collaborator.  Its side is modelled   *)
(* by the registrations the code makes with it: a page delivers            *)
(* DevToolsTargetReady to the session while the page is alive and the      *)
(* session is registered as its observer, the devtools client delivers     *)
(* page events and evaluation responses while it is attached to a live     *)
(* page, and closing a page or its browsing context destroys the page,     *)
(* detaches the client from it and drops what was in flight on it.         *)
(*                                                                         *)
(* A call through a null pointer (browser_, browser_context_, the global   *)
(* browser of main.cc) and a call of the empty std::function pageLoadedCb_ *)
(* terminate the process: the first is a load from address 0, the second   *)
(* throws std::bad_function_call, which nothing catches.  The model        *)
(* records the fault and stops (crashed = TRUE).                           *)
(***************************************************************************)
EXTENDS Naturals, Sequences, FiniteSets

(* Bounds of the model. *)
MaxNav == 2
MaxRuns == 2
MaxEval == 2
MaxShutdown == 2
MaxSignals == 2

(* nullptr, and the one engine handle HeadlessBrowserMain hands to onStart. *)
NULL == 0
ENGINE == 1

(* hc_server: kDefaultPort, the largest int and the largest uint16_t. *)
kDefaultPort == 9222
IntMax == 2147483647
UInt16Max == 65535

VARIABLES
    program,          \* "abi": host drives the extern "C" adapter; "server": hc_server main
    mainPc,           \* position of hc_server main ("host" for the abi program)
    sigInstalled,     \* main.cc: signal(SIGINT/SIGHUP, signal_handler) done
    exists,           \* the Browser object is allocated (new Browser / create_browser)
    crashed,          \* the process has terminated abnormally
    fault,            \* why it crashed
    runState,         \* Run / engine loop: idle, starting, looping, quitting, returned
    browser_,         \* Browser::browser_
    browser_context_, \* Browser::browser_context_
    web_contents_,    \* Browser::web_contents_
    pageLoadedCb_,    \* Browser::pageLoadedCb_ : NULL (empty) or the navigation whose readyCb it holds
    ctxOpen,          \* engine: browsing context i is open
    pages,            \* engine: pages built so far
    clientTarget,     \* engine: page devtools_client_ is attached to, or NULL
    pageObserver,     \* engine: session registered as page-domain observer of devtools_client_
    evals,            \* Evaluate calls made so far
    teardown,         \* steps executed by Shutdown, in order
    readyCalls,       \* invocations of Run's readyCb
    readySaw,         \* value of browser_ when Run's readyCb ran
    navReady,         \* navigations whose readyCb has been invoked, in order
    upcallNav,        \* outcome of an open_url made inside Run's readyCb: none, true, false, fault
    openUrlResult,    \* what the last OpenUrl call returned: "none", "true", "false"
    shutdownLog,      \* one entry per call of Browser::Shutdown: browser_ on entry
    shutdownBegun,    \* a Shutdown call after a navigate / with an evaluation in flight has begun
    lateCalls,        \* continuations invoked after shutdownBegun
    sigRuns,          \* runs of signal_handler
    sigDirect,        \* signal_handler touched the session from signal context
    runs,             \* calls of Browser::Run that reached HeadlessBrowserMain
    engineError,      \* HeadlessBrowserMain returned because of an engine error
    earlyShutdown,    \* a Shutdown call was made while the engine was starting
    argBuf,           \* last string argument of the adapter: releases by adapter and by caller
    switches          \* hc_server: the port, addr and proxy switches given to Run

vars == <<program, mainPc, sigInstalled, exists, crashed, fault, runState, browser_,
          browser_context_, web_contents_, pageLoadedCb_, ctxOpen, pages, clientTarget,
          pageObserver, evals, teardown, readyCalls, readySaw, navReady, upcallNav,
          openUrlResult, shutdownLog, shutdownBegun, lateCalls, sigRuns, sigDirect,
          runs, engineError, earlyShutdown, argBuf, switches>>

(* The whole state as one record, so that a handler is a function from state to state *)
(* and handlers compose (a readiness upcall that navigates, a signal handler that     *)
(* calls Shutdown).                                                                   *)
Cur ==
    [program |-> program, mainPc |-> mainPc, sigInstalled |-> sigInstalled,
     exists |-> exists, crashed |-> crashed, fault |-> fault, runState |-> runState,
     browser_ |-> browser_, browser_context_ |-> browser_context_,
     web_contents_ |-> web_contents_, pageLoadedCb_ |-> pageLoadedCb_,
     ctxOpen |-> ctxOpen, pages |-> pages, clientTarget |-> clientTarget,
     pageObserver |-> pageObserver, evals |-> evals, teardown |-> teardown,
     readyCalls |-> readyCalls, readySaw |-> readySaw, navReady |-> navReady,
     upcallNav |-> upcallNav,
     openUrlResult |-> openUrlResult, shutdownLog |-> shutdownLog,
     shutdownBegun |-> shutdownBegun, lateCalls |-> lateCalls, sigRuns |-> sigRuns,
     sigDirect |-> sigDirect, runs |-> runs, engineError |-> engineError,
     earlyShutdown |-> earlyShutdown, argBuf |-> argBuf, switches |-> switches]

Set(s) ==
    /\ program' = s.program
    /\ mainPc' = s.mainPc
    /\ sigInstalled' = s.sigInstalled
    /\ exists' = s.exists
    /\ crashed' = s.crashed
    /\ fault' = s.fault
    /\ runState' = s.runState
    /\ browser_' = s.browser_
    /\ browser_context_' = s.browser_context_
    /\ web_contents_' = s.web_contents_
    /\ pageLoadedCb_' = s.pageLoadedCb_
    /\ ctxOpen' = s.ctxOpen
    /\ pages' = s.pages
    /\ clientTarget' = s.clientTarget
    /\ pageObserver' = s.pageObserver
    /\ evals' = s.evals
    /\ teardown' = s.teardown
    /\ readyCalls' = s.readyCalls
    /\ readySaw' = s.readySaw
    /\ navReady' = s.navReady
    /\ openUrlResult' = s.openUrlResult
    /\ upcallNav' = s.upcallNav
    /\ shutdownLog' = s.shutdownLog
    /\ shutdownBegun' = s.shutdownBegun
    /\ lateCalls' = s.lateCalls
    /\ sigRuns' = s.sigRuns
    /\ sigDirect' = s.sigDirect
    /\ runs' = s.runs
    /\ engineError' = s.engineError
    /\ earlyShutdown' = s.earlyShutdown
    /\ argBuf' = s.argBuf
    /\ switches' = s.switches

(* Abnormal termination of the process. *)
Crash(s, why) == [s EXCEPT !.crashed = TRUE, !.fault = why]

PendingEvals(s) == {i \in 1..Len(s.evals) : s.evals[i].status = "pending"}

(***************************************************************************)
(* Engine side of the calls the session makes.                             *)
(***************************************************************************)

(* HeadlessWebContents::Close(): the page is destroyed with its observer list, *)
(* the devtools client attached to it is detached, requests in flight on it    *)
(* are never answered.                                                         *)
ClosePage(s, p) ==
    [s EXCEPT !.pages[p] = [@ EXCEPT !.live = FALSE, !.observer = FALSE],
              !.clientTarget = IF @ = p THEN NULL ELSE @,
              !.evals = [i \in 1..Len(s.evals) |->
                            IF s.evals[i].status = "pending" /\ s.evals[i].target = p
                            THEN [s.evals[i] EXCEPT !.status = "abandoned"]
                            ELSE s.evals[i]]]

RECURSIVE ClosePages(_, _)
ClosePages(s, ps) ==
    IF ps = {} THEN s
    ELSE LET p == CHOOSE q \in ps : TRUE
         IN ClosePages(ClosePage(s, p), ps \ {p})

(* HeadlessBrowserContext::Close(): the context and every page in it are destroyed. *)
CloseContext(s, c) ==
    LET inside == {p \in 1..Len(s.pages) : s.pages[p].ctx = c /\ s.pages[p].live}
    IN [ClosePages(s, inside) EXCEPT !.ctxOpen[c] = FALSE]

(***************************************************************************)
(* class Browser                                                           *)
(***************************************************************************)

(* OpenUrl without browser.cc:21: the page that is open is not closed first. *)
OpenUrl_NoClose(s, built) ==
    IF s.browser_ = NULL THEN Crash(s, "OpenUrl: null browser_")
    ELSE LET c == Len(s.ctxOpen) + 1
             s2 == [s EXCEPT !.ctxOpen = Append(@, TRUE), !.browser_context_ = c]
         IN IF ~built
            THEN [s2 EXCEPT !.web_contents_ = NULL, !.openUrlResult = "false"]
            ELSE [s2 EXCEPT !.pages = Append(@, [ctx |-> c, live |-> TRUE,
                                                  observer |-> TRUE, ready |-> FALSE,
                                                  loaded |-> FALSE]),
                            !.web_contents_ = Len(s2.pages) + 1,
                            !.openUrlResult = "true"]

(* Browser::OpenUrl.  built: whether builder.Build() returns a page.  readyCb is *)
(* a parameter the body never uses, so no continuation is stored.                *)
OpenUrl(s, built) ==
    LET s1 == IF s.web_contents_ # NULL THEN ClosePage(s, s.web_contents_) ELSE s
    IN IF s1.browser_ = NULL THEN Crash(s1, "OpenUrl: null browser_")
       ELSE LET c == Len(s1.ctxOpen) + 1
                s2 == [s1 EXCEPT !.ctxOpen = Append(@, TRUE), !.browser_context_ = c]
            IN IF ~built
               THEN [s2 EXCEPT !.web_contents_ = NULL, !.openUrlResult = "false"]
               ELSE [s2 EXCEPT !.pages = Append(@, [ctx |-> c, live |-> TRUE,
                                                     observer |-> TRUE, ready |-> FALSE,
                                                     loaded |-> FALSE]),
                               !.web_contents_ = Len(s2.pages) + 1,
                               !.openUrlResult = "true"]

(* Shutdown without browser.cc:61: the browsing context is dropped, not closed. *)
Shutdown_NoContextClose(s) ==
    LET s0 == [s EXCEPT !.shutdownLog = Append(@, s.browser_),
                        !.shutdownBegun = @ \/ Len(s.ctxOpen) > 0 \/ PendingEvals(s) # {},
                        !.earlyShutdown = @ \/ s.runState = "starting"]
    IN IF s0.browser_ = NULL THEN s0
       ELSE LET s1 == IF s0.web_contents_ # NULL
                      THEN [s0 EXCEPT !.pages[s0.web_contents_].observer = FALSE,
                                      !.web_contents_ = NULL,
                                      !.teardown = @ \o <<"WebContents.RemoveObserver",
                                                          "web_contents_">>]
                      ELSE s0
            IN [s1 EXCEPT !.browser_context_ = NULL,
                          !.runState = "quitting",
                          !.browser_ = NULL,
                          !.teardown = @ \o <<"browser_context_", "browser_">>]

(* Shutdown without browser.cc:56: no early return when browser_ is null. *)
Shutdown_NoGuard(s) ==
    LET s0 == [s EXCEPT !.shutdownLog = Append(@, s.browser_),
                        !.shutdownBegun = @ \/ Len(s.ctxOpen) > 0 \/ PendingEvals(s) # {},
                        !.earlyShutdown = @ \/ s.runState = "starting"]
        s1 == IF s0.web_contents_ # NULL
              THEN [s0 EXCEPT !.pages[s0.web_contents_].observer = FALSE,
                              !.web_contents_ = NULL,
                              !.teardown = @ \o <<"WebContents.RemoveObserver",
                                                  "web_contents_">>]
              ELSE s0
    IN IF s1.browser_context_ = NULL
       THEN Crash(s1, "Shutdown: null browser_context_")
       ELSE LET s2 == [CloseContext(s1, s1.browser_context_)
                         EXCEPT !.browser_context_ = NULL,
                                !.teardown = @ \o <<"browser_context_">>]
            IN IF s2.browser_ = NULL THEN Crash(s2, "Shutdown: null browser_")
               ELSE [s2 EXCEPT !.runState = "quitting",
                               !.browser_ = NULL,
                               !.teardown = @ \o <<"browser_">>]

(* Shutdown without browser.cc:59: the observer is removed but web_contents_ *)
(* keeps pointing at the page.                                               *)
Shutdown_KeepsWebContents(s) ==
    LET s0 == [s EXCEPT !.shutdownLog = Append(@, s.browser_),
                        !.shutdownBegun = @ \/ Len(s.ctxOpen) > 0 \/ PendingEvals(s) # {},
                        !.earlyShutdown = @ \/ s.runState = "starting"]
    IN IF s0.browser_ = NULL THEN s0
       ELSE LET s1 == IF s0.web_contents_ # NULL
                      THEN [s0 EXCEPT !.pages[s0.web_contents_].observer = FALSE,
                                      !.teardown = @ \o <<"WebContents.RemoveObserver">>]
                      ELSE s0
            IN IF s1.browser_context_ = NULL
               THEN Crash(s1, "Shutdown: null browser_context_")
               ELSE LET s2 == [CloseContext(s1, s1.browser_context_)
                                 EXCEPT !.browser_context_ = NULL,
                                        !.teardown = @ \o <<"browser_context_">>]
                    IN [s2 EXCEPT !.runState = "quitting",
                                  !.browser_ = NULL,
                                  !.teardown = @ \o <<"browser_">>]

(* Browser::Shutdown. *)
Shutdown(s) ==
    LET s0 == [s EXCEPT !.shutdownLog = Append(@, s.browser_),
                        !.shutdownBegun = @ \/ Len(s.ctxOpen) > 0 \/ PendingEvals(s) # {},
                        !.earlyShutdown = @ \/ s.runState = "starting"]
    IN IF s0.browser_ = NULL THEN s0
       ELSE LET s1 == IF s0.web_contents_ # NULL
                      THEN [s0 EXCEPT !.pages[s0.web_contents_].observer = FALSE,
                                      !.web_contents_ = NULL,
                                      !.teardown = @ \o <<"WebContents.RemoveObserver",
                                                          "web_contents_">>]
                      ELSE s0
            IN IF s1.browser_context_ = NULL
               THEN Crash(s1, "Shutdown: null browser_context_")
               ELSE LET s2 == [CloseContext(s1, s1.browser_context_)
                                 EXCEPT !.browser_context_ = NULL,
                                        !.teardown = @ \o <<"browser_context_">>]
                    IN [s2 EXCEPT !.runState = "quitting",
                                  !.browser_ = NULL,
                                  !.teardown = @ \o <<"browser_">>]

(* Run that does not block: it hands the engine its options on the side and   *)
(* returns at once, before any Shutdown.                                      *)
Run_ReturnsAtOnce(s) == [s EXCEPT !.runs = @ + 1, !.runState = "returned"]

(* Browser::Run: builds the options and enters HeadlessBrowserMain with onStart *)
(* bound to this session; the call blocks in the engine loop, so the state it   *)
(* leaves is "starting".  There is no test of the session's state.              *)
Run(s) == [s EXCEPT !.runs = @ + 1, !.runState = "starting"]

(***************************************************************************)
(* hc_server: Browser::Run(argc, argv, readyCb)                            *)
(***************************************************************************)

(* The switches before Run has read them. *)
NoSwitches ==
    [given |-> FALSE, port |-> [has |-> FALSE, str |-> <<>>], addr |-> "absent",
     proxy |-> "absent", endpoint |-> <<>>]

(* Value of a decimal digit character; 10 for any other character. *)
DigitOf(c) ==
    CASE c = "0" -> 0 [] c = "1" -> 1 [] c = "2" -> 2 [] c = "3" -> 3 [] c = "4" -> 4
      [] c = "5" -> 5 [] c = "6" -> 6 [] c = "7" -> 7 [] c = "8" -> 8 [] c = "9" -> 9
      [] OTHER -> 10

(* Digits of base::StringToInt, left to right: stops with ok = FALSE at the   *)
(* first character that is no digit and when the magnitude leaves the int     *)
(* range (the value is then clamped).                                         *)
RECURSIVE ParseDigits(_, _, _)
ParseDigits(str, i, acc) ==
    IF i > Len(str) THEN [ok |-> TRUE, value |-> acc]
    ELSE LET d == DigitOf(str[i])
         IN IF d = 10 THEN [ok |-> FALSE, value |-> acc]
            ELSE IF acc > (IntMax - d) \div 10 THEN [ok |-> FALSE, value |-> IntMax]
            ELSE ParseDigits(str, i + 1, acc * 10 + d)

(* base::StringToInt(port_str, &port): an optional sign and at least one      *)
(* digit, nothing else.  negative tells the sign; value is the magnitude.     *)
StringToInt(str) ==
    LET signed == Len(str) > 0 /\ str[1] \in {"-", "+"}
        first == IF signed THEN 2 ELSE 1
        digits == ParseDigits(str, first, 0)
    IN [ok |-> digits.ok /\ Len(str) >= first,
        negative |-> signed /\ str[1] = "-" /\ digits.value > 0,
        value |-> digits.value]

(* base::IsValueInRangeForNumericType<uint16_t>(port) *)
IsValueInRangeForUInt16(n) == ~n.negative /\ n.value <= UInt16Max

(* Run with the port test of lines 39-40 reduced to the parse: a number that  *)
(* parses is taken whatever its size and cut to 16 bits for the end point.    *)
RunServer_NoRangeCheck(s, sw) ==
    LET parsed == IF sw.port.has THEN StringToInt(sw.port.str)
                  ELSE [ok |-> TRUE, negative |-> FALSE, value |-> kDefaultPort]
        s1 == [s EXCEPT !.switches = [sw EXCEPT !.given = TRUE]]
    IN IF sw.port.has /\ ~parsed.ok
       THEN Crash(s1, "Run: Invalid devtools server port")
       ELSE IF sw.addr = "bad"
       THEN Crash(s1, "Run: Invalid devtools server address")
       ELSE IF sw.proxy = "malformed"
       THEN Crash(s1, "Run: Malformed proxy server")
       ELSE Run([s1 EXCEPT !.switches.endpoint = <<parsed.value % (UInt16Max + 1)>>])

(* Browser::Run of hc_server.  sw: the --port, --addr and --proxy switches of *)
(* the command line; addr and proxy carry what net::ParseURLHostnameToAddress *)
(* and net::HostPortPair::FromString make of them.  LOG(FATAL) and a failed   *)
(* checked_cast end the process.                                              *)
RunServer(s, sw) ==
    LET parsed == IF sw.port.has THEN StringToInt(sw.port.str)
                  ELSE [ok |-> TRUE, negative |-> FALSE, value |-> kDefaultPort]
        s1 == [s EXCEPT !.switches = [sw EXCEPT !.given = TRUE]]
    IN IF sw.port.has /\ (~parsed.ok \/ ~IsValueInRangeForUInt16(parsed))
       THEN Crash(s1, "Run: Invalid devtools server port")
       ELSE IF sw.addr = "bad"
       THEN Crash(s1, "Run: Invalid devtools server address")
       ELSE IF ~IsValueInRangeForUInt16(parsed)
       THEN Crash(s1, "Run: checked_cast<uint16_t>(port)")
       ELSE IF sw.proxy = "malformed"
       THEN Crash(s1, "Run: Malformed proxy server")
       ELSE Run([s1 EXCEPT !.switches.endpoint = <<parsed.value>>])

(* onStart with browser.cc:68 and 69 swapped: readyCb runs before browser_ is set. *)
onStart_CbFirst(s, browser, upcall) ==
    LET s1 == [s EXCEPT !.readyCalls = @ + 1, !.readySaw = s.browser_]
        s2 == IF upcall = "return" THEN s1
              ELSE LET s3 == OpenUrl(s1, upcall = "open_url_ok")
                   IN [s3 EXCEPT !.upcallNav = IF s3.crashed THEN "fault"
                                               ELSE s3.openUrlResult]
    IN IF s2.crashed THEN s2 ELSE [s2 EXCEPT !.browser_ = browser]

(* Browser::onStart.  upcall: what the host does inside the readiness upcall *)
(* (signalReady of run_browser, the logging lambda of main.cc): "return", or *)
(* a nested open_url, "open_url_ok" / "open_url_fail".                       *)
onStart(s, browser, upcall) ==
    LET s1 == [s EXCEPT !.browser_ = browser]
        s2 == [s1 EXCEPT !.readyCalls = @ + 1, !.readySaw = s1.browser_]
    IN IF upcall = "return" THEN s2
       ELSE LET s3 == OpenUrl(s2, upcall = "open_url_ok")
            IN [s3 EXCEPT !.upcallNav = IF s3.crashed THEN "fault" ELSE s3.openUrlResult]

(* Browser::DevToolsTargetReady: attaches devtools_client_ to the target of  *)
(* web_contents_, registers the session as page observer, enables the page   *)
(* domain.                                                                   *)
DevToolsTargetReady(s) ==
    IF s.web_contents_ = NULL THEN Crash(s, "DevToolsTargetReady: null web_contents_")
    ELSE [s EXCEPT !.clientTarget = s.web_contents_,
                   !.pageObserver = TRUE,
                   !.pages[s.web_contents_].ready = TRUE]

(* Browser::OnLoadEventFired: calls pageLoadedCb_. *)
OnLoadEventFired(s) ==
    IF s.pageLoadedCb_ = NULL THEN Crash(s, "OnLoadEventFired: empty pageLoadedCb_")
    ELSE [s EXCEPT !.navReady = Append(@, s.pageLoadedCb_),
                   !.lateCalls = IF s.shutdownBegun THEN @ + 1 ELSE @]

(* Browser::Evaluate: hands the script to devtools_client_ whatever the state. *)
(* With the client attached the request is in flight on its page.  With the    *)
(* client detached the engine either faults on its missing agent host          *)
(* (engineFaults) or drops the message; the callback is never run.             *)
Evaluate(s, engineFaults) ==
    IF s.clientTarget # NULL
    THEN [s EXCEPT !.evals = Append(@, [target |-> s.clientTarget, status |-> "pending",
                                        submitted |-> TRUE, rejected |-> FALSE,
                                        results |-> <<>>])]
    ELSE IF engineFaults THEN Crash(s, "Evaluate: devtools client not attached")
    ELSE [s EXCEPT !.evals = Append(@, [target |-> NULL, status |-> "dropped",
                                        submitted |-> TRUE, rejected |-> FALSE,
                                        results |-> <<>>])]

(* EvaluateCallback without the else of browser.cc:41: after the exception     *)
(* it goes on to report a value.                                               *)
EvaluateCallback_NoElse(s, i, hasExceptionDetails) ==
    LET failure == [success |-> FALSE, text |-> "exception text"]
        value == [success |-> TRUE, text |-> "serialized value"]
    IN [s EXCEPT !.evals[i] = [@ EXCEPT !.status = "resolved",
                                        !.results = IF hasExceptionDetails
                                                    THEN @ \o <<failure, value>>
                                                    ELSE Append(@, value)],
                 !.lateCalls = IF s.shutdownBegun THEN @ + 1 ELSE @]

(* EvaluateCallback bound to evaluation i: one call of the result continuation. *)
EvaluateCallback(s, i, hasExceptionDetails) ==
    LET res == IF hasExceptionDetails
               THEN [success |-> FALSE, text |-> "exception text"]
               ELSE [success |-> TRUE, text |-> "serialized value"]
    IN [s EXCEPT !.evals[i] = [@ EXCEPT !.status = "resolved",
                                        !.results = Append(@, res)],
                 !.lateCalls = IF s.shutdownBegun THEN @ + 1 ELSE @]

Init ==
    /\ program \in {"abi", "server"}
    /\ mainPc = IF program = "abi" THEN "host" ELSE "signal"
    /\ sigInstalled = FALSE
    /\ exists = (program = "abi")
    /\ crashed = FALSE
    /\ fault = "none"
    /\ runState = "idle"
    /\ browser_ = NULL
    /\ browser_context_ = NULL
    /\ web_contents_ = NULL
    /\ pageLoadedCb_ = NULL
    /\ ctxOpen = <<>>
    /\ pages = <<>>
    /\ clientTarget = NULL
    /\ pageObserver = FALSE
    /\ evals = <<>>
    /\ teardown = <<>>
    /\ readyCalls = 0
    /\ readySaw = NULL
    /\ navReady = <<>>
    /\ upcallNav = "none"
    /\ openUrlResult = "none"
    /\ shutdownLog = <<>>
    /\ shutdownBegun = FALSE
    /\ lateCalls = 0
    /\ sigRuns = 0
    /\ sigDirect = FALSE
    /\ runs = 0
    /\ engineError = FALSE
    /\ earlyShutdown = FALSE
    /\ argBuf = [adapter |-> 0, caller |-> 0]
    /\ switches = NoSwitches

(* The host may call the adapter while the session object exists. *)
HostCanCall == program = "abi" /\ exists /\ ~crashed

(* The engine loop delivers callbacks while it runs, also while it drains after *)
(* HeadlessBrowser::Shutdown.                                                   *)
LoopRuns == ~crashed /\ runState \in {"looping", "quitting"}

(* run_browser -> Browser::Run -> HeadlessBrowserMain: blocks in the engine loop. *)
run_browser ==
    /\ HostCanCall
    /\ runState = "idle"
    /\ Set(Run(Cur))

(* run_browser on a session whose Run has been called before, still blocking or *)
(* returned.  Run itself refuses nothing; the engine, entered a second time in  *)
(* the same process, either dies on one of its own checks (engineRefuses) or    *)
(* starts again and signals startup to the callback Run bound.                  *)
run_browser_again ==
    /\ HostCanCall
    /\ runState # "idle"
    /\ runs < MaxRuns
    /\ \E engineRefuses \in BOOLEAN :
          Set(IF engineRefuses
              THEN Crash([Cur EXCEPT !.runs = @ + 1], "HeadlessBrowserMain: second start")
              ELSE Run(Cur))

(* First two statements of open_url and evaluate_script: the argument is copied *)
(* into a std::string and the caller's buffer is passed to free().               *)
TakeString(s) == [s EXCEPT !.argBuf = [adapter |-> 1, caller |-> 0]]

(* The caller after the call has returned.  A caller that owns its string frees *)
(* it (callerFrees).  Freeing a buffer a second time is undefined: the          *)
(* allocator aborts (allocatorAborts) or goes on with a corrupted heap.         *)
CallerAfterCall(s, callerFrees, allocatorAborts) ==
    IF s.crashed \/ ~callerFrees THEN s
    ELSE LET s1 == [s EXCEPT !.argBuf.caller = @ + 1]
         IN IF s1.argBuf.adapter + s1.argBuf.caller > 1 /\ allocatorAborts
            THEN Crash(s1, "free: double free of the string argument")
            ELSE s1

(* open_url *)
open_url ==
    /\ HostCanCall
    /\ Len(ctxOpen) < MaxNav
    /\ \E built, callerFrees, allocatorAborts \in BOOLEAN :
          Set(CallerAfterCall(OpenUrl(TakeString(Cur), built), callerFrees, allocatorAborts))

(* evaluate_script *)
evaluate_script ==
    /\ HostCanCall
    /\ Len(evals) < MaxEval
    /\ \E engineFaults, callerFrees, allocatorAborts \in BOOLEAN :
          Set(CallerAfterCall(Evaluate(TakeString(Cur), engineFaults),
                              callerFrees, allocatorAborts))

(* shutdown_browser *)
shutdown_browser ==
    /\ HostCanCall
    /\ Len(shutdownLog) < MaxShutdown
    /\ Set(Shutdown(Cur))

(* The engine's startup-complete signal: the callback bound in Run, once per run. *)
EngineStarted ==
    /\ ~crashed
    /\ runState = "starting"
    /\ \E upcall \in (IF program = "abi"
                      THEN {"return", "open_url_ok", "open_url_fail"}
                      ELSE {"return"}) :
          Set(onStart([Cur EXCEPT !.runState = "looping"], ENGINE + (runs - 1), upcall))

(* HeadlessBrowserMain returns without having started: "or errors happen". *)
EngineFailed ==
    /\ ~crashed
    /\ runState = "starting"
    /\ Set([Cur EXCEPT !.runState = "returned",
                       !.engineError = TRUE,
                       !.mainPc = IF program = "server" THEN "delete" ELSE @])

(* The loop has drained after HeadlessBrowser::Shutdown: Run returns. *)
RunReturns ==
    /\ ~crashed
    /\ runState = "quitting"
    /\ Set([Cur EXCEPT !.runState = "returned",
                       !.mainPc = IF program = "server" THEN "delete" ELSE @])

(* A live page the session observes announces its devtools target, once. *)
TargetReady ==
    /\ LoopRuns
    /\ \E p \in 1..Len(pages) :
          /\ pages[p].live /\ pages[p].observer /\ ~pages[p].ready
          /\ Set(DevToolsTargetReady(Cur))

(* The attached client reports Page.loadEventFired to its page observers. *)
LoadEventFired ==
    /\ LoopRuns
    /\ pageObserver
    /\ clientTarget # NULL
    /\ pages[clientTarget].live
    /\ Set(OnLoadEventFired([Cur EXCEPT !.pages[clientTarget].loaded = TRUE]))

(* The engine answers an evaluation in flight on a live page. *)
EvaluateResponse ==
    /\ LoopRuns
    /\ \E i \in PendingEvals(Cur) : \E hasExceptionDetails \in BOOLEAN :
          /\ pages[evals[i].target].live
          /\ Set(EvaluateCallback(Cur, i, hasExceptionDetails))

(***************************************************************************)
(* hc_server: main.cc                                                      *)
(***************************************************************************)

(* signal_handler: browser->Shutdown() on the global pointer, in signal context. *)
(* The pointer is null until main has run new Browser and dangles after delete;  *)
(* a call through the dangling pointer reads freed memory: it returns at the     *)
(* browser_ test or faults (freedReadFaults).                                    *)
signal_handler(s, freedReadFaults) ==
    LET s0 == [s EXCEPT !.sigRuns = @ + 1]
    IN IF s0.mainPc = "new" THEN Crash(s0, "signal_handler: null browser")
       ELSE IF s0.mainPc = "return"
       THEN IF freedReadFaults
            THEN Crash([s0 EXCEPT !.sigDirect = TRUE], "signal_handler: deleted browser")
            ELSE [s0 EXCEPT !.sigDirect = TRUE]
       ELSE Shutdown([s0 EXCEPT !.sigDirect = TRUE])

(* main: signal(SIGINT, ...) and signal(SIGHUP, ...) *)
MainInstallsHandlers ==
    /\ program = "server" /\ ~crashed
    /\ mainPc = "signal"
    /\ Set([Cur EXCEPT !.sigInstalled = TRUE, !.mainPc = "new"])

(* main: browser = new Browser *)
MainNewBrowser ==
    /\ program = "server" /\ ~crashed
    /\ mainPc = "new"
    /\ Set([Cur EXCEPT !.exists = TRUE, !.mainPc = "run"])

(* Values --port is given on the command line. *)
PortStrings ==
    {<<>>, <<"a", "b", "c">>, <<"8", "0", "x">>, <<"-", "1">>, <<"0">>,
     <<"9", "2", "2", "3">>, <<"6", "5", "5", "3", "5">>, <<"6", "5", "5", "3", "6">>,
     <<"9", "9", "9", "9", "9", "9", "9", "9", "9", "9">>}

(* Command lines of hc_server. *)
SwitchInputs ==
    [given : {FALSE},
     port : {[has |-> FALSE, str |-> <<>>]} \cup [has : {TRUE}, str : PortStrings],
     addr : {"absent", "ok", "bad"},
     proxy : {"absent", "ok", "malformed"},
     endpoint : {<<>>}]

(* main: browser->Run(argc, argv, ...) *)
MainRun ==
    /\ program = "server" /\ ~crashed
    /\ mainPc = "run"
    /\ \E sw \in SwitchInputs : Set(RunServer([Cur EXCEPT !.mainPc = "inRun"], sw))

(* main: delete browser *)
MainDelete ==
    /\ program = "server" /\ ~crashed
    /\ mainPc = "delete"
    /\ Set([Cur EXCEPT !.exists = FALSE, !.mainPc = "return"])

(* main: return 0 *)
MainReturns ==
    /\ program = "server" /\ ~crashed
    /\ mainPc = "return"
    /\ Set([Cur EXCEPT !.mainPc = "exit"])

(* SIGINT or SIGHUP arrives while the handler is installed and the process lives. *)
Signal ==
    /\ program = "server" /\ ~crashed
    /\ sigInstalled
    /\ mainPc # "exit"
    /\ sigRuns < MaxSignals
    /\ \E freedReadFaults \in BOOLEAN : Set(signal_handler(Cur, freedReadFaults))

Next ==
    \/ run_browser
    \/ open_url
    \/ evaluate_script
    \/ shutdown_browser
    \/ EngineStarted
    \/ EngineFailed
    \/ RunReturns
    \/ TargetReady
    \/ LoadEventFired
    \/ EvaluateResponse
    \/ MainInstallsHandlers
    \/ MainNewBrowser
    \/ MainRun
    \/ MainDelete
    \/ MainReturns
    \/ Signal

Spec == Init /\ [][Next]_vars


(* The engine does not stay in start-up for ever (it starts or fails), and   *)
(* its loop drains once HeadlessBrowser::Shutdown was called.  Nothing makes *)
(* the host, the page or a signal act.                                       *)
FairSpec == Spec /\ WF_vars(EngineStarted \/ EngineFailed) /\ WF_vars(RunReturns)

(* The program with a host that also calls run_browser a second time. *)
NextSecondRun ==
    \/ Next
    \/ run_browser_again

SpecSecondRun == Init /\ [][NextSecondRun]_vars

(***************************************************************************)
(* Claims                                                                  *)
(***************************************************************************)

Accepted(i) == evals[i].target # NULL

(* C1: Shutdown is safe in every lifecycle state after creation: no call of   *)
(* Shutdown dereferences a null engine, browsing-context or page handle.      *)
C1_ShutdownNeverDereferencesNull ==
    fault \notin {"Shutdown: null browser_context_", "Shutdown: null browser_"}

(* C2: once a Shutdown call made after a navigate, or with an evaluation in   *)
(* flight, has begun, no page-load, navigate-readiness or evaluation-result   *)
(* continuation is invoked.                                                   *)
C2_NoContinuationAfterShutdown == lateCalls = 0

(* C2 witness: Shutdown ran with an evaluation in flight and has abandoned it; *)
(* the engine loop is still draining.                                          *)
C2_Witness ==
    /\ shutdownBegun
    /\ runState = "quitting"
    /\ \E i \in 1..Len(evals) : evals[i].status = "abandoned"

(* C3: the readiness continuation of a navigation is invoked once its page is *)
(* attached and its load-complete event has fired, and not before.            *)
C3_ReadyAfterAttachAndLoad ==
    \A p \in 1..Len(pages) :
        (pages[p].ready /\ pages[p].loaded)
            <=> (\E k \in 1..Len(navReady) : navReady[k] = pages[p].ctx)

(* C4: an Evaluate call made while the session is not attached is rejected    *)
(* with an explicit failure: the script is not submitted and the process does *)
(* not fault.                                                                 *)
C4_EvaluateRejectedUnlessAttached ==
    /\ fault # "Evaluate: devtools client not attached"
    /\ \A i \in 1..Len(evals) :
          ~Accepted(i) => (evals[i].rejected /\ ~evals[i].submitted)

(* C5 as stated: every accepted evaluation has resolved exactly once by the   *)
(* time the engine loop is gone.                                              *)
C5_ExactlyOnceWhenRunReturned ==
    runState = "returned" =>
        \A i \in 1..Len(evals) : Accepted(i) => Len(evals[i].results) = 1

(* C5 amended: an accepted evaluation's continuation runs at most once; it    *)
(* has run exactly once when the engine answered, with success and a value or *)
(* failure and a description, and not at all when Shutdown or a re-navigation *)
(* closed its page first.                                                     *)
C5_AtMostOnceAndWellFormed ==
    \A i \in 1..Len(evals) : Accepted(i) =>
        /\ Len(evals[i].results) <= 1
        /\ (evals[i].status = "resolved") <=> (Len(evals[i].results) = 1)
        /\ evals[i].status = "abandoned" => ~pages[evals[i].target].live
        /\ evals[i].status = "pending" => pages[evals[i].target].live
        /\ \A k \in 1..Len(evals[i].results) :
              evals[i].results[k] \in {[success |-> TRUE, text |-> "serialized value"],
                                       [success |-> FALSE, text |-> "exception text"]}

(* C5 witness: two evaluations overlapped; the second has resolved with       *)
(* exception details while the first is still in flight.                      *)
C5_Witness ==
    /\ Len(evals) = 2
    /\ evals[1].status = "pending"
    /\ evals[2].status = "resolved"
    /\ evals[2].results = <<[success |-> FALSE, text |-> "exception text"]>>

(* The engine has been shut down by a Shutdown call. *)
TornDown == \E k \in 1..Len(teardown) : teardown[k] = "browser_"

(* C6: after a Shutdown call has torn the session down, a further Shutdown   *)
(* call changes no session state and issues no engine command.               *)
C6_ShutdownIdempotent ==
    [][(Len(shutdownLog') > Len(shutdownLog) /\ TornDown) =>
          UNCHANGED <<browser_, browser_context_, web_contents_, pageLoadedCb_,
                      ctxOpen, pages, clientTarget, pageObserver, evals, teardown,
                      runState, crashed, fault>>]_vars

(* C6 witness: the first Shutdown call found the engine and tore the session *)
(* down, the second came after it.                                           *)
C6_Witness ==
    /\ Len(shutdownLog) >= 2
    /\ shutdownLog[1] = ENGINE
    /\ shutdownLog[2] = NULL
    /\ TornDown

C8_ReadyOnceWithEngine ==
    /\ readyCalls <= 1
    /\ runState \in {"looping", "quitting"} => readyCalls = 1
    /\ readyCalls = 0 => browser_ = NULL
    /\ readyCalls = 1 => readySaw = ENGINE
    /\ upcallNav # "fault"

(* C8 witness: the readiness upcall navigated and a page was built. *)
C8_Witness ==
    /\ readyCalls = 1
    /\ upcallNav = "true"
    /\ web_contents_ # NULL

(* Position of a teardown step in the order detach observer, page, context, engine. *)
TeardownRank(step) ==
    CASE step = "Page.RemoveObserver" -> 1
      [] step = "WebContents.RemoveObserver" -> 1
      [] step = "web_contents_" -> 2
      [] step = "browser_context_" -> 3
      [] step = "browser_" -> 4

(* C9: a Shutdown call that has run to its end has detached the page        *)
(* observer of the Debug Channel, then released the page handle, the         *)
(* browsing-context handle and the engine handle, in that order, skipping    *)
(* none that was held.                                                       *)
C9_TeardownReverseOrder ==
    TornDown =>
        /\ ~pageObserver
        /\ web_contents_ = NULL
        /\ browser_context_ = NULL
        /\ browser_ = NULL
        /\ \A j, k \in 1..Len(teardown) :
              j < k => TeardownRank(teardown[j]) < TeardownRank(teardown[k])

(* C10: signal_handler never touches the session from signal context (the    *)
(* shutdown is handed to the loop thread) and never runs before the session  *)
(* object exists.                                                            *)
C10_SignalShutdownMarshaled ==
    /\ ~sigDirect
    /\ fault # "signal_handler: null browser"

(* C11: a second call of Run on the same session fails fatally: it never     *)
(* starts a second engine run and never overwrites the engine handle.        *)
C11_SecondRunFailsFatally ==
    /\ runs >= 2 => (crashed /\ fault = "HeadlessBrowserMain: second start")
    /\ browser_ \in {NULL, ENGINE}

(* C12: when Run has returned and no engine error happened, a Shutdown call  *)
(* that reached the engine (HeadlessBrowser::Shutdown issued) came before.   *)
C12_RunReturnsOnlyAfterShutdown ==
    (runState = "returned" /\ ~engineError) =>
        /\ TornDown
        /\ \E k \in 1..Len(shutdownLog) : shutdownLog[k] # NULL

(* C12 witness: the adapter's Run has returned normally after a session that *)
(* navigated and was shut down.                                              *)
C12_Witness ==
    /\ program = "abi"
    /\ runState = "returned"
    /\ ~engineError
    /\ Len(pages) > 0

(* C13: the adapter never releases the caller's string buffer, so a caller   *)
(* that frees its string after the call has released it exactly once.        *)
C13_CallerKeepsItsString ==
    /\ argBuf.adapter = 0
    /\ argBuf.adapter + argBuf.caller <= 1
    /\ fault # "free: double free of the string argument"

(* Port switch values that are no integer in 0..65535, and the port number of *)
(* those that are.                                                            *)
InvalidPortStrings ==
    {<<>>, <<"a", "b", "c">>, <<"8", "0", "x">>, <<"-", "1">>,
     <<"6", "5", "5", "3", "6">>,
     <<"9", "9", "9", "9", "9", "9", "9", "9", "9", "9">>}

ExpectedPort(port) ==
    IF ~port.has THEN 9222
    ELSE CASE port.str = <<"0">> -> 0
           [] port.str = <<"9", "2", "2", "3">> -> 9223
           [] port.str = <<"6", "5", "5", "3", "5">> -> 65535

(* C14: hc_server's Run with a port switch that is no integer in 0..65535     *)
(* ends the process before HeadlessBrowserMain: the engine is never entered,  *)
(* onStart never runs, browser_ stays null.  With a port in range, a valid    *)
(* address and a valid proxy the engine is entered, listening on that port.   *)
C14_InvalidPortIsFatalBeforeEngine ==
    (program = "server" /\ switches.given) =>
        /\ (switches.port.has /\ switches.port.str \in InvalidPortStrings) =>
              /\ crashed
              /\ fault = "Run: Invalid devtools server port"
              /\ runs = 0 /\ runState = "idle"
              /\ readyCalls = 0 /\ browser_ = NULL
        /\ (/\ ~(switches.port.has /\ switches.port.str \in InvalidPortStrings)
            /\ switches.addr # "bad"
            /\ switches.proxy # "malformed") =>
              /\ runs = 1 /\ runState # "idle"
              /\ switches.endpoint = <<ExpectedPort(switches.port)>>

(* C14 witness: --port=65536 has ended the process in Run. *)
C14_Witness ==
    /\ switches.given
    /\ switches.port.str = <<"6", "5", "5", "3", "6">>
    /\ crashed
    /\ runs = 0

(* C15: in every reachable state a non-null web_contents_ implies a non-null *)
(* browser_.                                                                 *)
C15_PageHandleImpliesEngineHandle == web_contents_ # NULL => browser_ # NULL

(* C15 witness: Shutdown has torn down a session that had a page open. *)
C15_Witness ==
    /\ TornDown /\ ~crashed
    /\ \E k \in 1..Len(teardown) : teardown[k] = "web_contents_"
    /\ web_contents_ = NULL /\ browser_ = NULL
    /\ openUrlResult = "true"

(* C16: whenever the devtools client is attached to a target and the session *)
(* is registered as its page observer, web_contents_ is that same page; so   *)
(* the channel is not attached after Shutdown, after a re-navigation closed  *)
(* the old page, or after an OpenUrl that returned false.                    *)
C16_ChannelAttachedImpliesPageHandle ==
    /\ (clientTarget # NULL /\ pageObserver) =>
          /\ web_contents_ # NULL
          /\ web_contents_ = clientTarget
          /\ pages[clientTarget].live
    /\ (TornDown \/ openUrlResult = "false") => clientTarget = NULL

(* C16 witness: the channel was attached to a first page, and an OpenUrl     *)
(* that returned false has since closed that page.                           *)
C16_Witness ==
    /\ Len(pages) > 0 /\ pages[1].ready
    /\ pageObserver
    /\ openUrlResult = "false"
    /\ clientTarget = NULL /\ web_contents_ = NULL
    /\ ~crashed

(* C17: OpenUrl called while browser_ is null does not dereference it (it    *)
(* returns false and leaves the session as it was).                          *)
C17_NavigateWithNullEngineFailsCleanly == fault # "OpenUrl: null browser_"

(* C18: OnLoadEventFired never calls an empty pageLoadedCb_, and never calls *)
(* the continuation of one navigation twice.                                 *)
C18_LoadHandlerCallsSetContinuationOnce ==
    /\ fault # "OnLoadEventFired: empty pageLoadedCb_"
    /\ \A i, j \in 1..Len(navReady) : navReady[i] = navReady[j] => i = j

(* C19: a Shutdown call made while the engine is starting is not lost: the   *)
(* session goes on to end (Run returns, or the process has ended), it does   *)
(* not reach the running loop and stay there.                                *)
C19_EarlyShutdownTerminates == earlyShutdown ~> (runState = "returned" \/ crashed)

(* C20: at most one browsing context is open at any time, and none is open   *)
(* once Shutdown has torn the session down.                                  *)
C20_AtMostOneContextNoneLeaked ==
    /\ Cardinality({c \in 1..Len(ctxOpen) : ctxOpen[c]}) <= 1
    /\ TornDown => \A c \in 1..Len(ctxOpen) : ~ctxOpen[c]

=============================================================================
